---- MODULE Spec2Model ----
(***************************************************************************)
(* CertificateParser (Assistant/lib/parser.py): the retry loop and the     *)
(* field extraction of parse, and the sequential / thread-pool fan-out of  *)
(* retrieveBatch.                                                          *)
(***************************************************************************)
EXTENDS Integers, Sequences, FiniteSets, TLC

(* ------------------------------------------------------------------ *)
(* Class attributes of CertificateParser                               *)
(* ------------------------------------------------------------------ *)
retry_attempts == 4

\* _batch_size is 1000 in the source; the model runs batches of this size.
batch_size == 2

base_field == "#_s_com_dgb_sep_domain_CertificadoRemesaDetalle_"

(* ------------------------------------------------------------------ *)
(* Bounds of the model                                                 *)
(* ------------------------------------------------------------------ *)
\* retrieveBatch is called with file_no in 0..MaxFileNo
MaxFileNo == 1

\* threads of the ThreadPoolExecutor
MaxWorkers == 2

\* DownloadItem widgets in the window
MaxItems == 2

\* a direct call of parse has number_code in 0..MaxNumberCode
MaxNumberCode == 1

(* ------------------------------------------------------------------ *)
(* Python values                                                       *)
(* ------------------------------------------------------------------ *)
PyStr(s) == [t |-> "str", v |-> s]

PyInt(n) == [t |-> "int", v |-> n]

PyNone == [t |-> "NoneType", v |-> ""]

PyFalse == [t |-> "bool", v |-> FALSE]

PyDict(d) == [t |-> "dict", v |-> d]

(* ------------------------------------------------------------------ *)
(* The page served by the portal                                       *)
(* ------------------------------------------------------------------ *)
\* the field tokens parse looks up, in the order of its select calls
FieldTokens ==
    << "tmpNombrePlantel", "tmpClaveCct", "tmpRvoe", "tmpTipoCertificado",
       "tmpFolioDigital", "tmpNombreCompleto", "matricula", "promedio",
       "tmpPeriodo" >>

Fields == {FieldTokens[i] : i \in 1..Len(FieldTokens)}

\* a field node of a page is absent, present without a text child
\* (its .string is None), or present with text
NodeKinds == {"absent", "empty", "text"}

FullDoc == [f \in Fields |-> "text"]

\* the page of an identifier without certificate: no field node at all
EmptyPage == [f \in Fields |-> "absent"]

DocWith(f, kind) == [FullDoc EXCEPT ![f] = kind]

Docs ==
    {FullDoc, EmptyPage}
        \cup {DocWith(f, "absent") : f \in Fields}
        \cup {DocWith(f, "empty") : f \in Fields}

\* the id attribute of the element holding field f on the portal's page
ElementId(f) ==
    "_s_com_dgb_sep_domain_CertificadoRemesaDetalle_" \o f \o "_" \o f \o "_id"

\* tag.string of the node of field f
NodeString(doc, f) ==
    IF doc[f] = "text" THEN PyStr(f) ELSE PyNone

\* browser.select(selector): the list of the elements the CSS selector matches
select(doc, selector) ==
    LET hits == {f \in DOMAIN doc :
                    doc[f] # "absent" /\ ("#" \o ElementId(f)) = selector}
    IN  IF hits = {}
        THEN << >>
        ELSE << [string |-> NodeString(doc, CHOOSE f \in hits : TRUE)] >>

(* ------------------------------------------------------------------ *)
(* The network: what successive GETs of one resolution do              *)
(* ------------------------------------------------------------------ *)
\* the two exceptions the retry loop catches
Retried == {"ConnectionError", "Timeout"}

\* any other exception of requests (TooManyRedirects, ChunkedEncodingError,
\* ...): no except clause of parse matches it
Uncaught == {"RequestException"}

SeqsOf(S, n) == UNION {[1..k -> S] : k \in 0..n}

\* a fetch stub: net[k] is the outcome of the k-th GET, doc the page a
\* successful GET returns
Stub(net, doc) == [net |-> net, doc |-> doc]

NetScripts ==
    {Append(e, last) :
        e \in SeqsOf(Retried, retry_attempts - 1),
        last \in {"ok"} \cup Uncaught}
        \cup [1..retry_attempts -> Retried]

AllStubs ==
    {Stub(n, d) : n \in {s \in NetScripts : s[Len(s)] = "ok"}, d \in Docs}
        \cup {Stub(n, EmptyPage) : n \in {s \in NetScripts : s[Len(s)] # "ok"}}

\* the stubs of the identifiers of a batch
BatchStubs ==
    { Stub(<<"ok">>, FullDoc),
      Stub(<<"ConnectionError", "ok">>, EmptyPage),
      Stub(<<"Timeout", "ConnectionError", "Timeout", "ConnectionError">>,
           EmptyPage),
      Stub(<<"ok">>, DocWith("tmpFolioDigital", "absent")),
      Stub(<<"RequestException">>, EmptyPage) }

(* ------------------------------------------------------------------ *)
(* State                                                               *)
(* ------------------------------------------------------------------ *)
VARIABLES
    calls,        \* calls[s]: the activation of parse in slot s
    prev,         \* the last finished direct call whose fetch succeeded
    bpc,          \* position of retrieveBatch
    file_no,      \* its arguments
    threaded,
    cert_list,    \* its local cert_list
    failed_certs, \* its local failed_certs
    blog,         \* the entries retrieveBatch logged
    bret,         \* the value it returned
    braised,      \* the exception it raised
    executor,     \* the ThreadPoolExecutor of the with block
    batch_no_spin,\* DownloadDialog: value of the batch number spin box
    range_label,  \* DownloadDialog: the range shown
    items         \* the DownloadItem widgets

vars ==
    << calls, prev, bpc, file_no, threaded, cert_list, failed_certs, blog,
       bret, braised, executor, batch_no_spin, range_label, items >>

batchVars ==
    << bpc, file_no, threaded, cert_list, failed_certs, blog, bret, braised,
       executor >>

guiVars == << batch_no_spin, range_label, items >>

\* slot 0 is a direct call of parse; slot i >= 1 is the call for the i-th
\* identifier of the batch
Slots == 0..batch_size

Positions == 1..batch_size

LogEntry(level, msg, arg) == [level |-> level, msg |-> msg, arg |-> arg]

NoCall ==
    [ pc |-> "idle", number_code |-> 0, stub |-> Stub(<< >>, EmptyPage),
      request_ok |-> FALSE, attempts |-> 0, gets |-> 0, selected |-> {},
      ret |-> PyNone, raised |-> "", log |-> << >> ]

NoPrev ==
    [number_code |-> -1, doc |-> EmptyPage, attempts |-> 0, ret |-> PyNone]



(* ------------------------------------------------------------------ *)
(* CertificateParser._getField                                         *)
(* ------------------------------------------------------------------ *)
\* mutant of getField: the field token is written once
getFieldOnce(field_name) ==
    base_field \o field_name \o "_id"

getField(field_name) ==
    base_field \o field_name \o "_" \o field_name \o "_id"

(* ------------------------------------------------------------------ *)
(* CertificateParser.parse                                             *)
(* ------------------------------------------------------------------ *)
\* mutant of Logged: every entry is recorded at informational severity
LoggedAtInfo(c, level, msg, arg) ==
    [c EXCEPT !.log = Append(@, LogEntry("INFO", msg, arg))]

\* logger.debug / info / warning / exception (exception logs at ERROR)

Logged(c, level, msg, arg) ==
    [c EXCEPT !.log = Append(@, LogEntry(level, msg, arg))]

\* mutant of LoopContinues: the ceiling is reached one attempt early
LoopContinuesOneShort(c) ==
    ~c.request_ok /\ c.attempts < retry_attempts - 1

\* the condition of the while loop
LoopContinues(c) ==
    ~c.request_ok /\ c.attempts < retry_attempts

\* what the k-th GET of a resolution does (a network that failed to the end
\* of its script keeps failing the same way)
NetOutcome(stub, k) ==
    stub.net[IF k <= Len(stub.net) THEN k ELSE Len(stub.net)]

\* entry of parse: a fresh browser, request_ok = False, attempts = 0
NewCall(number_code, stub) ==
    LET c == [NoCall EXCEPT !.number_code = number_code, !.stub = stub]
    IN  [c EXCEPT !.pc = IF LoopContinues(c) THEN "fetch" ELSE "fetched"]

\* mutant of OpenPage: the except clause of Timeout counts the attempt
\* without logging it
OpenPageQuietTimeout(c) ==
    LET outcome == NetOutcome(c.stub, c.gets + 1)
        id == PyInt(c.number_code)
        c1 == [c EXCEPT !.gets = @ + 1]
        c2 == CASE outcome = "ok" ->
                     [c1 EXCEPT !.request_ok = TRUE]
                 [] outcome = "ConnectionError" ->
                     [Logged(c1, "WARNING", "Failed to retrieve page", id)
                        EXCEPT !.attempts = @ + 1]
                 [] outcome = "Timeout" ->
                     [c1 EXCEPT !.attempts = @ + 1]
                 [] OTHER ->
                     [c1 EXCEPT !.pc = "raised", !.raised = outcome]
    IN  IF c2.pc = "raised"
        THEN c2
        ELSE [c2 EXCEPT !.pc = IF LoopContinues(c2) THEN "fetch" ELSE "fetched"]

\* one iteration of the while loop: browser.open and its except clauses
OpenPage(c) ==
    LET outcome == NetOutcome(c.stub, c.gets + 1)
        id == PyInt(c.number_code)
        c1 == [c EXCEPT !.gets = @ + 1]
        c2 == CASE outcome = "ok" ->
                     [c1 EXCEPT !.request_ok = TRUE]
                 [] outcome = "ConnectionError" ->
                     [Logged(c1, "WARNING", "Failed to retrieve page", id)
                        EXCEPT !.attempts = @ + 1]
                 [] outcome = "Timeout" ->
                     [Logged(c1, "WARNING", "Timeout on page", id)
                        EXCEPT !.attempts = @ + 1]
                 [] OTHER ->
                     [c1 EXCEPT !.pc = "raised", !.raised = outcome]
    IN  IF c2.pc = "raised"
        THEN c2
        ELSE [c2 EXCEPT !.pc = IF LoopContinues(c2) THEN "fetch" ELSE "fetched"]

\* if not request_ok: log and return False
GiveUp(c) ==
    [Logged(c, "ERROR", "Connection error on", PyInt(c.number_code))
        EXCEPT !.pc = "returned", !.ret = PyFalse]

\* mutant of StudentDict: a missing folio node is read as None instead of
\* raising IndexError
StudentDictLenient(number_code, l) ==
    IF \E k \in DOMAIN l \ {"cert"} : l[k] = << >>
    THEN [t |-> "IndexError", v |-> << >>]
    ELSE PyDict([ number |-> PyInt(number_code),
                  nombre |-> l.nombre[1].string,
                  plantel |-> l.plantel[1].string,
                  clave_trabajo |-> l.clave[1].string,
                  rvoe |-> l.rvoe[1].string,
                  matricula |-> l.matricula[1].string,
                  promedio |-> l.promedio[1].string,
                  periodo |-> l.periodo[1].string,
                  tipo_certificado |-> l.tipo[1].string,
                  certificado |-> IF l.cert = << >> THEN PyNone
                                  ELSE l.cert[1].string ])

\* the dict literal of the try block over the selected lists l (the locals
\* nombre, plantel, clave, ...); indexing an empty list raises IndexError
StudentDict(number_code, l) ==
    IF \E k \in DOMAIN l : l[k] = << >>
    THEN [t |-> "IndexError", v |-> << >>]
    ELSE PyDict([ number |-> PyInt(number_code),
                  nombre |-> l.nombre[1].string,
                  plantel |-> l.plantel[1].string,
                  clave_trabajo |-> l.clave[1].string,
                  rvoe |-> l.rvoe[1].string,
                  matricula |-> l.matricula[1].string,
                  promedio |-> l.promedio[1].string,
                  periodo |-> l.periodo[1].string,
                  tipo_certificado |-> l.tipo[1].string,
                  certificado |-> l.cert[1].string ])

\* the rest of parse after a successful GET: the presence check on the
\* institution name, the eight other lookups and the record
Extract(c) ==
    LET doc == c.stub.doc
        id == PyInt(c.number_code)
        c1 == Logged(c, "DEBUG", "Opened URL", id)
        plantel == select(doc, getField("tmpNombrePlantel"))
    IN  IF plantel # << >>
        THEN
            LET c2 == [Logged(c1, "DEBUG", "Certificate found on code", id)
                         EXCEPT !.selected = {getField(f) : f \in Fields}]
                student_dict ==
                    StudentDict(c.number_code,
                        [ plantel |-> plantel,
                          clave |-> select(doc, getField("tmpClaveCct")),
                          rvoe |-> select(doc, getField("tmpRvoe")),
                          tipo |-> select(doc, getField("tmpTipoCertificado")),
                          cert |-> select(doc, getField("tmpFolioDigital")),
                          nombre |-> select(doc, getField("tmpNombreCompleto")),
                          matricula |-> select(doc, getField("matricula")),
                          promedio |-> select(doc, getField("promedio")),
                          periodo |-> select(doc, getField("tmpPeriodo")) ])
            IN  IF student_dict.t = "IndexError"
                THEN [Logged(c2, "ERROR", "Fields missing on", id)
                        EXCEPT !.pc = "returned", !.ret = PyFalse]
                ELSE [Logged(c2, "INFO", "Parsed", student_dict.v.certificado)
                        EXCEPT !.pc = "returned", !.ret = student_dict]
        ELSE
            [Logged(c1, "WARNING", "No certificate under code", id)
                EXCEPT !.pc = "returned", !.ret = PyNone,
                       !.selected = {getField("tmpNombrePlantel")}]

\* mutant of Finish: the attempt counter is tested instead of request_ok
FinishByAttempts(c) ==
    IF c.attempts > 0 THEN GiveUp(c) ELSE Extract(c)

\* parse from the end of the loop to its return
Finish(c) ==
    IF ~c.request_ok THEN GiveUp(c) ELSE Extract(c)

(* ------------------------------------------------------------------ *)
(* Steps of an activation of parse                                     *)
(* ------------------------------------------------------------------ *)
Running(c) == c.pc \in {"fetch", "fetched"}

Ended(c) == c.pc \in {"returned", "raised"}

\* mutant of ParseOpen: attempts is an attribute of the parser, written by
\* every running call
ParseOpenShared(s) ==
    /\ calls[s].pc = "fetch"
    /\ calls' = [r \in Slots |->
                   IF r = s THEN OpenPage(calls[s])
                   ELSE IF Running(calls[r])
                        THEN [calls[r] EXCEPT
                                !.attempts = OpenPage(calls[s]).attempts]
                        ELSE calls[r]]
    /\ UNCHANGED << prev, batchVars, guiVars >>

\* one GET of the retry loop
ParseOpen(s) ==
    /\ calls[s].pc = "fetch"
    /\ calls' = [calls EXCEPT ![s] = OpenPage(@)]
    /\ UNCHANGED << prev, batchVars, guiVars >>

\* the code after the loop, to the return
ParseFinish(s) ==
    /\ calls[s].pc = "fetched"
    /\ calls' = [calls EXCEPT ![s] = Finish(@)]
    /\ UNCHANGED << prev, batchVars, guiVars >>

\* what is kept of a direct call once the next one starts
Remembered ==
    IF calls[0].pc = "returned" /\ calls[0].request_ok
    THEN [ number_code |-> calls[0].number_code,
           doc |-> calls[0].stub.doc,
           attempts |-> calls[0].attempts,
           ret |-> calls[0].ret ]
    ELSE prev

\* the first direct call parse(number_code)
Resolve(number_code, stub) ==
    /\ calls[0].pc = "idle"
    /\ calls' = [calls EXCEPT ![0] = NewCall(number_code, stub)]
    /\ UNCHANGED << prev, batchVars, guiVars >>

\* the same identifier is resolved again: the portal serves the same page,
\* the network behaves in any way
ResolveAgain(net) ==
    /\ Ended(calls[0])
    /\ prev' = Remembered
    /\ calls' = [calls EXCEPT
                    ![0] = NewCall(@.number_code, Stub(net, @.stub.doc))]
    /\ UNCHANGED << batchVars, guiVars >>

(* ------------------------------------------------------------------ *)
(* CertificateParser.retrieveBatch                                     *)
(* ------------------------------------------------------------------ *)
range_start == batch_size * file_no

\* range(range_start, range_start + _batch_size)
cert_range == [i \in 1..batch_size |-> range_start + (i - 1)]

\* mutant of Count: every falsy element is counted (None as well as False)
CountFalsy(list, x) ==
    Cardinality({i \in 1..Len(list) : list[i] \in {x, PyNone}})

\* list.count(x)
Count(list, x) == Cardinality({i \in 1..Len(list) : list[i] = x})

\* (failed_certs / _batch_size) * 100, kept as an exact fraction
FailureRate(failed) == [t |-> "float", v |-> << failed * 100, batch_size >>]

\* entry of retrieveBatch up to the end of the with block: map_mode is
\* executor.map (every task is submitted, a generator is returned) or the
\* builtin map (a lazy iterator, nothing runs yet)
RetrieveBatch(b, flag) ==
    /\ bpc = "idle"
    /\ file_no' = b
    /\ threaded' = flag
    /\ blog' = << LogEntry("INFO", "Starting batch number", PyInt(b)) >>
    /\ cert_list' = [t |-> IF flag THEN "generator" ELSE "map", v |-> << >>]
    /\ bpc' = IF flag THEN "pool" ELSE "list"
    /\ executor' = IF flag THEN "live" ELSE "shutdown"
    /\ UNCHANGED << calls, prev, failed_certs, bret, braised, guiVars >>

\* a thread of the pool takes the oldest queued task and enters parse
WorkerRun(i, stub) ==
    /\ bpc = "pool"
    /\ calls[i].pc = "idle"
    /\ \A j \in 1..(i - 1) : calls[j].pc # "idle"
    /\ Cardinality({j \in Positions : Running(calls[j])}) < MaxWorkers
    /\ calls' = [calls EXCEPT ![i] = NewCall(cert_range[i], stub)]
    /\ UNCHANGED << prev, batchVars, guiVars >>

\* mutant of PoolShutdown: shutdown(wait=False), the with block is left while
\* tasks are queued or running
PoolShutdownNoWait ==
    /\ bpc = "pool"
    /\ bpc' = "finalise"
    /\ executor' = "shutdown"
    /\ UNCHANGED << calls, prev, file_no, threaded, cert_list, failed_certs,
                    blog, bret, braised, guiVars >>

\* exit of the with block: shutdown(wait=True) returns once every task ended
PoolShutdown ==
    /\ bpc = "pool"
    /\ \A i \in Positions : Ended(calls[i])
    /\ bpc' = "finalise"
    /\ executor' = "shutdown"
    /\ UNCHANGED << calls, prev, file_no, threaded, cert_list, failed_certs,
                    blog, bret, braised, guiVars >>

\* mutant of ListNext: parse is entered for the next identifier without
\* waiting for the previous call
ListNextAhead(stub) ==
    /\ bpc = "list"
    /\ \E i \in Positions :
           /\ calls[i].pc = "idle"
           /\ \A j \in 1..(i - 1) : calls[j].pc # "idle"
           /\ calls' = [calls EXCEPT ![i] = NewCall(cert_range[i], stub)]
    /\ UNCHANGED << prev, batchVars, guiVars >>

\* list(cert_list) in sequential mode: the map object calls parse for the
\* next identifier
ListNext(stub) ==
    /\ bpc = "list"
    /\ LET i == Len(cert_list.v) + 1
       IN  /\ calls[i].pc = "idle"
           /\ calls' = [calls EXCEPT ![i] = NewCall(cert_range[i], stub)]
    /\ UNCHANGED << prev, batchVars, guiVars >>

\* ... and list() stores what parse returned
ListAppend ==
    /\ bpc = "list"
    /\ LET i == Len(cert_list.v) + 1
       IN  /\ calls[i].pc = "returned"
           /\ cert_list' =
                [ t |-> IF i = batch_size THEN "list" ELSE "map",
                  v |-> Append(cert_list.v, calls[i].ret) ]
           /\ bpc' = IF i = batch_size THEN "finalise" ELSE "list"
    /\ UNCHANGED << calls, prev, file_no, threaded, failed_certs, blog, bret,
                    braised, executor, guiVars >>

\* ... or the exception parse raised leaves list() and retrieveBatch
ListRaise ==
    /\ bpc = "list"
    /\ LET i == Len(cert_list.v) + 1
       IN  /\ calls[i].pc = "raised"
           /\ braised' = calls[i].raised
    /\ bpc' = "raised"
    /\ UNCHANGED << calls, prev, file_no, threaded, cert_list, failed_certs,
                    blog, bret, executor, guiVars >>

\* "Finalise operation": the count of False, the two warnings, the return
Finalise ==
    /\ bpc = "finalise"
    /\ LET completed ==
            Append(blog, LogEntry("INFO", "Completed batch number",
                                  PyInt(file_no)))
       IN  IF cert_list.t # "list"
           THEN \* a generator has no attribute count
                /\ blog' = completed
                /\ bpc' = "raised"
                /\ braised' = "AttributeError"
                /\ UNCHANGED << failed_certs, bret >>
           ELSE LET failed == Count(cert_list.v, PyFalse)
                IN  /\ failed_certs' = failed
                    /\ blog' =
                         IF failed >= 1
                         THEN completed \o
                              << LogEntry("WARNING",
                                          "elements could not be obtained",
                                          PyInt(failed)),
                                 LogEntry("WARNING", "% failure rate",
                                          FailureRate(failed)) >>
                         ELSE completed
                    /\ bret' = cert_list
                    /\ bpc' = "returned"
                    /\ UNCHANGED braised
    /\ UNCHANGED << calls, prev, file_no, threaded, cert_list, executor,
                    guiVars >>

(* ------------------------------------------------------------------ *)
(* qt_elements.DownloadDialog                                          *)
(* ------------------------------------------------------------------ *)
\* the batch numbers the spin box offers
BatchNumbers == 1..(MaxFileNo + 1)

\* mutant of updateRange: the end of the range is the start of the next one
updateRangeLong(current_value) ==
    [ r_start |-> (current_value - 1) * batch_size,
      r_end |-> current_value * batch_size ]

\* updateRange: r_start and r_end of "Download certificates r_start - r_end"
\* (the dialog is built with the batch size of the parser)
updateRange(current_value) ==
    [ r_start |-> (current_value - 1) * batch_size,
      r_end |-> current_value * batch_size - 1 ]

\* batch_no_spin.valueChanged, connected to updateRange
ValueChanged(n) ==
    /\ n # batch_no_spin
    /\ batch_no_spin' = n
    /\ range_label' = updateRange(n)
    /\ UNCHANGED << calls, prev, batchVars, items >>

(* ------------------------------------------------------------------ *)
(* qt_elements.DownloadItem                                            *)
(* ------------------------------------------------------------------ *)
ItemIds == 1..MaxItems

\* _details_open and _selected of a new widget; double_clicked counts the
\* emissions of the signal since the last closeDetails
NewItem == [details_open |-> FALSE, selected |-> FALSE, double_clicked |-> 0]

\* mousePressEvent: selected_event is emitted, the widget is selected
mousePressEvent(it) ==
    /\ items' = [items EXCEPT ![it].selected = TRUE]
    /\ UNCHANGED << calls, prev, batchVars, batch_no_spin, range_label >>

\* deselect
deselect(it) ==
    /\ items' = [items EXCEPT ![it].selected = FALSE]
    /\ UNCHANGED << calls, prev, batchVars, batch_no_spin, range_label >>

\* mutant of mouseDoubleClickEvent: details_open is not tested
mouseDoubleClickEventUnguarded(it) ==
    /\ items' = [items EXCEPT ![it].details_open = TRUE,
                              ![it].double_clicked = @ + 1]
    /\ UNCHANGED << calls, prev, batchVars, batch_no_spin, range_label >>

\* mouseDoubleClickEvent: openDetails and the emission of double_clicked,
\* unless the details are open
mouseDoubleClickEvent(it) ==
    /\ items' = IF ~items[it].details_open
                THEN [items EXCEPT ![it].details_open = TRUE,
                                   ![it].double_clicked = @ + 1]
                ELSE items
    /\ UNCHANGED << calls, prev, batchVars, batch_no_spin, range_label >>

\* closeDetails
closeDetails(it) ==
    /\ items' = [items EXCEPT ![it].details_open = FALSE,
                              ![it].double_clicked = 0]
    /\ UNCHANGED << calls, prev, batchVars, batch_no_spin, range_label >>

(* ------------------------------------------------------------------ *)
(* Specifications                                                      *)
(* ------------------------------------------------------------------ *)
Init ==
    /\ calls = [s \in Slots |-> NoCall]
    /\ prev = NoPrev
    /\ bpc = "idle"
    /\ file_no = 0
    /\ threaded = FALSE
    /\ cert_list = [t |-> "list", v |-> << >>]
    /\ failed_certs = -1
    /\ blog = << >>
    /\ bret = PyNone
    /\ braised = ""
    /\ executor = "none"
    /\ batch_no_spin = 1
    /\ range_label = updateRange(1)
    /\ items = [it \in ItemIds |-> NewItem]

\* one call of retrieveBatch
Next ==
    \/ \E b \in 0..MaxFileNo, flag \in BOOLEAN : RetrieveBatch(b, flag)
    \/ \E i \in Positions, stub \in BatchStubs : WorkerRun(i, stub)
    \/ \E i \in Positions : ParseOpen(i)
    \/ \E i \in Positions : ParseFinish(i)
    \/ PoolShutdown
    \/ \E stub \in BatchStubs : ListNext(stub)
    \/ ListAppend
    \/ ListRaise
    \/ Finalise

Spec == Init /\ [][Next]_vars

\* direct calls of parse, one after the other: any identifier against any
\* stub, then the same identifier again
NextParse ==
    \/ \E n \in 0..MaxNumberCode, stub \in AllStubs : Resolve(n, stub)
    \/ \E net \in NetScripts : ResolveAgain(net)
    \/ ParseOpen(0)
    \/ ParseFinish(0)

SpecParse == Init /\ [][NextParse]_vars

\* the download dialog and the download items, up to the start of a batch
NextGui ==
    \/ \E n \in BatchNumbers : ValueChanged(n)
    \/ \E it \in ItemIds : mousePressEvent(it)
    \/ \E it \in ItemIds : deselect(it)
    \/ \E it \in ItemIds : mouseDoubleClickEvent(it)
    \/ \E it \in ItemIds : closeDetails(it)
    \/ \E b \in 0..MaxFileNo, flag \in BOOLEAN : RetrieveBatch(b, flag)

SpecGui == Init /\ [][NextGui]_vars

(* ------------------------------------------------------------------ *)
(* Vocabulary of the properties                                        *)
(* ------------------------------------------------------------------ *)
Found(r) == r.t = "dict"

NotFound(r) == r = PyNone

FetchFailed(r) == r = PyFalse

RecordKeys ==
    { "number", "nombre", "plantel", "clave_trabajo", "rvoe", "matricula",
      "promedio", "periodo", "tipo_certificado", "certificado" }

BatchEnded == bpc \in {"returned", "raised"}

EveryItemReturned == \A i \in Positions : calls[i].pc = "returned"

\* the stub fails its first k GETs with a retried error
FailsFirst(stub, k) ==
    /\ Len(stub.net) >= k
    /\ \A j \in 1..k : stub.net[j] \in Retried

FailsThreeThenOk(stub) ==
    /\ FailsFirst(stub, 3)
    /\ Len(stub.net) = 4
    /\ stub.net[4] = "ok"

PageShape(doc) ==
    /\ doc["tmpNombrePlantel"] # "absent"
    /\ \E f \in Fields : doc[f] = "absent"

HasEntry(log, level, msg) ==
    \E k \in 1..Len(log) : log[k].level = level /\ log[k].msg = msg

\* parse run from entry to its end against one stub
RECURSIVE RunParse(_)
RunParse(c) ==
    IF c.pc = "fetch" THEN RunParse(OpenPage(c))
    ELSE IF c.pc = "fetched" THEN RunParse(Finish(c))
    ELSE c

\* list(map(self.parse, cert_range)) against the stubs of the batch
SequentialOutcomes ==
    [i \in Positions |-> RunParse(NewCall(cert_range[i], calls[i].stub)).ret]

(* ------------------------------------------------------------------ *)
(* Properties                                                          *)
(* ------------------------------------------------------------------ *)

\* C1: when retrieveBatch(b, flag) has ended, in either mode, and every
\* parse of the batch returned an outcome, retrieveBatch returned a sequence
\* of exactly batch_size outcomes whose i-th element is what parse returned
\* for identifier b * batch_size + i.
C1_BatchReturnsOneOutcomePerIdentifier ==
    (BatchEnded /\ EveryItemReturned) =>
        /\ bpc = "returned"
        /\ bret.t = "list"
        /\ Len(bret.v) = batch_size
        /\ \A i \in Positions :
              /\ calls[i].number_code = file_no * batch_size + (i - 1)
              /\ bret.v[i] = calls[i].ret

\* C2: against the same stubs, a concurrent batch returns at every position
\* the outcome the sequential map yields.
C2_ConcurrentEqualsSequential ==
    (BatchEnded /\ threaded /\ EveryItemReturned) =>
        /\ bpc = "returned"
        /\ bret = [t |-> "list", v |-> SequentialOutcomes]

\* C3 as claimed: three retried failures then a success give Found or
\* NotFound, never FetchFailed; four retried failures give FetchFailed.
C3_RetryCeilingAsClaimed ==
    LET c == calls[0]
    IN  Ended(c) =>
            /\ FailsThreeThenOk(c.stub) =>
                    c.pc = "returned" /\ (Found(c.ret) \/ NotFound(c.ret))
            /\ FailsFirst(c.stub, 4) =>
                    c.pc = "returned" /\ FetchFailed(c.ret)

\* C3 amended: three retried failures then a success never end in retry
\* exhaustion: parse extracts the fetched page and returns Found, NotFound,
\* or FetchFailed only for a page whose institution name is present and
\* another field node absent; four retried failures give FetchFailed
\* without a successful GET.
C3_RetryCeiling ==
    LET c == calls[0]
    IN  Ended(c) =>
            /\ FailsThreeThenOk(c.stub) =>
                    /\ c.pc = "returned"
                    /\ c.request_ok /\ c.gets = 4
                    /\ ~HasEntry(c.log, "ERROR", "Connection error on")
                    /\ Found(c.ret) \/ NotFound(c.ret) \/ FetchFailed(c.ret)
                    /\ FetchFailed(c.ret) <=> PageShape(c.stub.doc)
            /\ FailsFirst(c.stub, 4) =>
                    /\ c.pc = "returned" /\ FetchFailed(c.ret)
                    /\ ~c.request_ok /\ c.gets = 4

C3_Witness ==
    /\ calls[0].pc = "returned"
    /\ FailsThreeThenOk(calls[0].stub)
    /\ FetchFailed(calls[0].ret)

\* C4: for a fetched page, no institution-name node means NotFound whatever
\* else is present; the institution name with any other field node absent
\* means FetchFailed; a record is returned only if every field node is
\* present, and it then has all ten keys.
C4_AllOrNothingExtraction ==
    LET c == calls[0]
        doc == c.stub.doc
    IN  (c.pc = "returned" /\ c.request_ok) =>
            /\ doc["tmpNombrePlantel"] = "absent" => NotFound(c.ret)
            /\ PageShape(doc) => FetchFailed(c.ret)
            /\ Found(c.ret) =>
                    /\ \A f \in Fields : doc[f] # "absent"
                    /\ DOMAIN c.ret.v = RecordKeys

C4_Witness ==
    /\ calls[0].pc = "returned"
    /\ calls[0].request_ok
    /\ calls[0].stub.doc = DocWith("tmpPeriodo", "absent")
    /\ FetchFailed(calls[0].ret)

\* C5: retrieveBatch never ends with an exception, whatever the items do.
C5_BatchNeverRaises ==
    bpc # "raised" /\ braised = ""

\* C6: parse ends by returning Found, NotFound or FetchFailed, never by
\* raising; after exhausted retries it returns FetchFailed with no lookup.
C6_ParseTotal ==
    LET c == calls[0]
    IN  Ended(c) =>
            /\ c.pc = "returned"
            /\ Found(c.ret) \/ NotFound(c.ret) \/ FetchFailed(c.ret)
            /\ ~c.request_ok => FetchFailed(c.ret) /\ c.selected = {}

\* C7: after a batch whose items all returned, in either mode, failed_certs
\* is the number of FetchFailed outcomes and the two warnings (count, rate)
\* are logged exactly when it is at least 1.
C7_FailedCount ==
    (BatchEnded /\ EveryItemReturned) =>
        LET failed == Cardinality({i \in Positions : FetchFailed(calls[i].ret)})
        IN  /\ failed_certs = failed
            /\ failed >= 1 <=>
                 \E k \in 1..Len(blog) :
                    /\ blog[k] = LogEntry("WARNING",
                                    "elements could not be obtained",
                                    PyInt(failed))
                    /\ k < Len(blog)
                    /\ blog[k + 1] = LogEntry("WARNING", "% failure rate",
                                        FailureRate(failed))

C10_RecordFieldsAreText ==
    LET c == calls[0]
    IN  (c.pc = "returned" /\ Found(c.ret)) =>
            /\ DOMAIN c.ret.v = RecordKeys
            /\ \A k \in RecordKeys \ {"number"} : c.ret.v[k].t = "str"

\* the identifiers for which the batch has entered parse, each with the
\* number of times it was passed to parse
TimesParsed(n) ==
    Cardinality({i \in Positions :
                    calls[i].pc # "idle" /\ calls[i].number_code = n})

\* C11: once retrieveBatch(b, flag) has ended, in either mode, every
\* identifier of b * batch_size .. b * batch_size + batch_size - 1 was passed
\* to parse exactly once, and at no time is an identifier outside that range
\* passed to parse.
C11_ExactlyTheRange ==
    LET lo == file_no * batch_size
        hi == file_no * batch_size + batch_size - 1
    IN  /\ \A i \in Positions :
              calls[i].pc # "idle" => calls[i].number_code \in lo..hi
        /\ \A n \in lo..hi : TimesParsed(n) <= 1
        /\ BatchEnded => \A n \in lo..hi : TimesParsed(n) = 1

\* C12: every selector parse obtains from _getField is the base prefix, the
\* field token, an underscore, the token again and "_id": a resolution that
\* read the page looked up the institution name under that selector, and a
\* record was built from the nine distinct selectors of the nine tokens.
C12_SelectorShape ==
    LET c == calls[0]
        Sel(f) == base_field \o f \o "_" \o f \o "_id"
    IN  /\ c.selected \subseteq {Sel(f) : f \in Fields}
        /\ (c.pc = "returned" /\ c.request_ok) =>
                Sel("tmpNombrePlantel") \in c.selected
        /\ (c.pc = "returned" /\ Found(c.ret)) =>
                /\ c.selected = {Sel(f) : f \in Fields}
                /\ Cardinality(c.selected) = Cardinality(Fields)
                /\ "#_s_com_dgb_sep_domain_CertificadoRemesaDetalle_promedio_promedio_id"
                        \in c.selected

C12_Witness ==
    /\ calls[0].pc = "returned"
    /\ Found(calls[0].ret)
    /\ Cardinality(calls[0].selected) = 9

\* C13: in sequential mode at most one resolution is in progress at any
\* time, and the resolution of an identifier has started only if that of
\* every smaller identifier of the batch has returned.
C13_SequentialOneAtATime ==
    (~threaded /\ bpc # "idle") =>
        /\ Cardinality({i \in Positions : Running(calls[i])}) <= 1
        /\ \A i, j \in Positions :
              (i < j /\ calls[j].pc # "idle") =>
                  /\ calls[i].pc = "returned"
                  /\ calls[i].number_code < calls[j].number_code

C13_Witness ==
    /\ ~threaded
    /\ bpc = "list"
    /\ calls[1].pc = "returned"
    /\ Running(calls[2])

\* C14: a call of parse issues at most 4 GETs and none after a successful
\* one; the retry loop is always left as Succeeded (request_ok) or as
\* ExhaustedRetries, the latter only after exactly 4 failed attempts.
C14_BoundedRetryLoop ==
    LET c == calls[0]
    IN  /\ c.gets <= retry_attempts
        /\ c.request_ok => c.pc # "fetch"
        /\ c.pc # "raised"
        /\ (c.pc \in {"fetched", "returned"} /\ ~c.request_ok) =>
                c.attempts = retry_attempts /\ c.gets = retry_attempts

\* the warnings of the retry loop, in order
LoopWarnings(log) ==
    SelectSeq(log, LAMBDA e :
        e.level = "WARNING"
            /\ e.msg \in {"Failed to retrieve page", "Timeout on page"})

\* the GETs issued so far that ended in an error the loop retries
FailedAttempts(c) ==
    {k \in 1..c.gets : NetOutcome(c.stub, k) \in Retried}

\* C15: in a call of parse the retry loop has logged one warning per failed
\* attempt, naming the identifier and the kind of the failure, and once the
\* call has ended the error entry "Connection error on <identifier>" is in
\* its log if and only if all retry_attempts attempts failed.
C15_LoopLogging ==
    LET c == calls[0]
        w == LoopWarnings(c.log)
    IN  /\ Len(w) = Cardinality(FailedAttempts(c))
        /\ \A k \in 1..Len(w) :
              /\ w[k].arg = PyInt(c.number_code)
              /\ w[k].msg = IF NetOutcome(c.stub, k) = "Timeout"
                            THEN "Timeout on page"
                            ELSE "Failed to retrieve page"
        /\ Ended(c) =>
              ( (\E k \in 1..Len(c.log) :
                    c.log[k] = LogEntry("ERROR", "Connection error on",
                                        PyInt(c.number_code)))
                <=> Cardinality(FailedAttempts(c)) = retry_attempts )

C15_Witness ==
    /\ calls[0].pc = "returned"
    /\ ~calls[0].request_ok
    /\ Len(LoopWarnings(calls[0].log)) = 4
    /\ HasEntry(calls[0].log, "ERROR", "Connection error on")


\* the statements after the with block: list(cert_list), the count, the return
AfterWith == bpc \in {"list", "finalise", "returned", "raised"}

\* C16: the worker pool exists only inside a retrieveBatch call: there is
\* none before the call, and it is shut down when the with block is left,
\* hence before the call returns or raises; in concurrent mode every
\* resolution of the batch has ended when the statement that counts the
\* failures is reached, and no resolution is running when the call is left.
C16_PoolScopedToBatch ==
    /\ bpc = "idle" => executor = "none"
    /\ bpc = "pool" => executor = "live"
    /\ AfterWith => executor = "shutdown"
    /\ (threaded /\ bpc \in {"finalise", "returned", "raised"})
           => \A i \in Positions : Ended(calls[i])
    /\ BatchEnded => \A i \in Positions : ~Running(calls[i])

\* a concurrent batch whose resolutions all ran on the pool and ended, at the
\* statement that counts the failures, the pool shut down
C16_Witness ==
    /\ threaded
    /\ bpc = "finalise"
    /\ executor = "shutdown"
    /\ \A i \in Positions : Ended(calls[i]) /\ calls[i].gets >= 1


\* attempts or request_ok of the call in slot r is written by the step
WritesLoopState(r) ==
    \/ calls'[r].attempts # calls[r].attempts
    \/ calls'[r].request_ok # calls[r].request_ok

LastEntry(c) == c.log[Len(c.log)]

\* the severity of the entry that accompanies a Found outcome and a
\* page-shape failure of the direct call
FoundAndPageShapeSeverity ==
    LET c == calls[0]
        id == PyInt(c.number_code)
    IN  c.pc = "returned" =>
          /\ Found(c.ret) =>
                LastEntry(c) = LogEntry("INFO", "Parsed", c.ret.v.certificado)
          /\ (FetchFailed(c.ret) /\ c.request_ok) =>
                LastEntry(c) = LogEntry("ERROR", "Fields missing on", id)

\* C18 as claimed: a NotFound outcome is logged at informational severity;
\* Found at informational severity with the folio; a page-shape failure at
\* error severity naming the identifier.
C18_SeverityAsClaimed ==
    /\ FoundAndPageShapeSeverity
    /\ (calls[0].pc = "returned" /\ NotFound(calls[0].ret)) =>
          LastEntry(calls[0]).level = "INFO"

\* C18, amended: a NotFound outcome is logged at warning severity, naming the
\* identifier; Found at informational severity with the folio; a page-shape
\* failure at error severity naming the identifier.
C18_SeverityFollowsOutcome ==
    /\ FoundAndPageShapeSeverity
    /\ (calls[0].pc = "returned" /\ NotFound(calls[0].ret)) =>
          LastEntry(calls[0]) =
              LogEntry("WARNING", "No certificate under code",
                       PyInt(calls[0].number_code))

\* a call that fetched a page without the institution-name node, returned
\* None and logged it
C18_Witness ==
    /\ calls[0].pc = "returned"
    /\ calls[0].request_ok
    /\ NotFound(calls[0].ret)
    /\ LastEntry(calls[0]).level = "WARNING"


\* the identifiers between the two numbers of a label
Displayed(label) == label.r_start..label.r_end

\* the identifiers retrieveBatch resolves for the file_no it was called with
Resolved == {cert_range[i] : i \in Positions}

\* C19: the label shows the range of the batch number of the spin box; that
\* range holds exactly batch_size identifiers; it is the range retrieveBatch
\* resolves when called with file_no = n - 1 and shares no identifier with
\* the range resolved for file_no = n; the range of batch number n + 1
\* starts right after the end of the range of n.
C19_DisplayedRangeIsBatchRange ==
    /\ range_label = updateRange(batch_no_spin)
    /\ Cardinality(Displayed(range_label)) = batch_size
    /\ (bpc # "idle" /\ file_no = batch_no_spin - 1)
           => Displayed(range_label) = Resolved
    /\ (bpc # "idle" /\ file_no = batch_no_spin)
           => Displayed(range_label) \cap Resolved = {}
    /\ \A n \in BatchNumbers :
           /\ updateRange(n + 1).r_start = updateRange(n).r_end + 1
           /\ Displayed(updateRange(n)) \cap Displayed(updateRange(n + 1)) = {}

\* the spin box was moved to batch number 2 and retrieveBatch was called with
\* file_no = 1
C19_Witness ==
    /\ batch_no_spin = 2
    /\ bpc # "idle"
    /\ file_no = 1
    /\ range_label.r_start = cert_range[1]
    /\ range_label.r_end = cert_range[batch_size]


\* the step emits double_clicked of the item it
Emits(it) == items'[it].double_clicked = items[it].double_clicked + 1

\* C20: a step emits double_clicked of an item only when its details_open is
\* false, and details_open is true right after; since only closeDetails
\* makes details_open false again, double_clicked is emitted at most once
\* between two calls of closeDetails, and the details are open from the
\* emission to the next closeDetails.
C20_OneEmissionPerOpening ==
    /\ [](\A it \in ItemIds :
             /\ items[it].double_clicked <= 1
             /\ items[it].double_clicked = 1 => items[it].details_open)
    /\ [][\A it \in ItemIds :
             Emits(it) => ~items[it].details_open /\ items'[it].details_open]_vars

\* an item whose details were opened by a double click that emitted
\* double_clicked, while the other item was pressed and stayed closed
C20_Witness ==
    /\ items[1].details_open /\ items[1].double_clicked = 1
    /\ ~items[2].details_open
    /\ items[2].selected

====
